---- MODULE Spec2Model ----
(***************************************************************************)
(* Model of clifford/tools/g3c/__init__.py: grade projection, the          *)
(* square-root ("twiddle root") finder of Hadfield and Lasenby, object     *)
(* interpolation / averaging / rotor-between, and the closed-form          *)
(* exponential ga_exp.                                                     *)
(*                                                                         *)
(* The library is a set of pure functions, so a state of the model is one  *)
(* completed call: the operation, its arguments as they are after the      *)
(* call, the value returned, the exception raised, and a trace of the      *)
(* branch taken and of the intermediate values the code computed.          *)
(*                                                                         *)
(* Numbers.  Coefficients are exact integers in a fixed unit (stated where *)
(* a threshold fixes it).  A coefficient array is a tuple of 32 integers   *)
(* in the layout order of the g3c algebra (grade bands 1,5,10,10,5,1).     *)
(* A square root of a non-square is kept exactly as a "half step": the     *)
(* real number sqrt(r) is encoded as 2*floor(sqrt(r)) when r is a perfect  *)
(* square and as 2*floor(sqrt(r))+1 otherwise, so that for integers s, t   *)
(*      s + sqrt(r) > t   <=>   2*s + enc(r) > 2*t                         *)
(* and likewise for <, and for s - sqrt(r).  IEEE not-a-number is a flag.  *)
(***************************************************************************)
EXTENDS Integers, Sequences, FiniteSets, TLC

VARIABLES op, arg, ret, exc, trace

vars == <<op, arg, ret, exc, trace>>

(***************************************************************************)
(* Bounds of the model.                                                    *)
(***************************************************************************)
MaxCoef == 2

Coef == (0 - MaxCoef)..MaxCoef

(***************************************************************************)
(* The algebra backend (clifford.g3c layout): Cl(4,1) with basis vectors   *)
(* e1..e4 squaring to +1 and e5 squaring to -1.  A MultiVector is the set  *)
(* of its non-zero terms <<blade, coefficient>>, a blade being the set of  *)
(* the indices of its basis vectors ({} is the scalar blade).              *)
(***************************************************************************)
Abs(n) == IF n < 0 THEN 0 - n ELSE n

RECURSIVE SumOver(_, _)
SumOver(F(_), S) ==
  IF S = {} THEN 0
  ELSE LET x == CHOOSE y \in S : TRUE IN F(x) + SumOver(F, S \ {x})

\* the coefficient of blade K in a
CoefOf(a, K) ==
  IF \E t \in a : t[1] = K THEN (CHOOSE t \in a : t[1] = K)[2] ELSE 0

ZeroMV == {}

Blade(S) == {<<S, 1>>}

Scale(n, a) == IF n = 0 THEN {} ELSE {<<t[1], n * t[2]>> : t \in a}

Add(a, b) ==
  {<<K, CoefOf(a, K) + CoefOf(b, K)>> :
     K \in {t[1] : t \in {u \in a \cup b :
                            CoefOf(a, u[1]) + CoefOf(b, u[1]) # 0}}}

Sub(a, b) == Add(a, Scale(0 - 1, b))

\* sign of the geometric product of two basis blades: one factor -1 for every
\* transposition that sorts the concatenation, and e5*e5 = -1
BladeSign(A, B) ==
  LET swaps == Cardinality({p \in A \X B : p[1] > p[2]})
      neg   == IF 5 \in (A \cap B) THEN 1 ELSE 0
  IN  IF (swaps + neg) % 2 = 0 THEN 1 ELSE 0 - 1

\* the blade of the product of the basis blades A and B
SymDiff(A, B) == (A \ B) \cup (B \ A)

\* one coefficient of the geometric product
GmtAt(a, b, K) ==
  SumOver(LAMBDA x : x[2] * CoefOf(b, SymDiff(x[1], K))
                           * BladeSign(x[1], SymDiff(x[1], K)),
          a)

\* geometric product
gmt_func(a, b) ==
  {<<K, GmtAt(a, b, K)>> :
     K \in {L \in {SymDiff(x[1], y[1]) : x \in a, y \in b} :
              GmtAt(a, b, L) # 0}}

\* one coefficient of the inner product: the grade |r - s| part of the
\* product, zero on scalars
ImtAt(a, b, K) ==
  SumOver(LAMBDA x :
            LET J == SymDiff(x[1], K)
                gi == Cardinality(x[1])
                gj == Cardinality(J)
            IN  IF gi = 0 \/ gj = 0 \/ Cardinality(K) # Abs(gi - gj) THEN 0
                ELSE x[2] * CoefOf(b, J) * BladeSign(x[1], J),
          a)

imt_func(a, b) ==
  {<<K, ImtAt(a, b, K)>> :
     K \in {L \in {SymDiff(x[1], y[1]) : x \in a, y \in b} :
              ImtAt(a, b, L) # 0}}

\* reversion ~a: grades 2 and 3 change sign
Reverse(a) ==
  {<<t[1], IF Cardinality(t[1]) \in {2, 3} THEN 0 - t[2] ELSE t[2]>> : t \in a}

\* MultiVector.__call__(grade): the grade part of a multivector
GradePart(a, g) == {t \in a : Cardinality(t[1]) = g}

(***************************************************************************)
(* Coefficient arrays (numpy arrays of 32 floats).  Index i of the code is *)
(* position i + 1 of the tuple.  Blades lists the basis blades in the      *)
(* order of the layout: by grade, then lexicographically.                  *)
(***************************************************************************)
Idx == 0..31

Vec(F(_)) ==
  <<F(0), F(1), F(2), F(3), F(4), F(5), F(6), F(7),
    F(8), F(9), F(10), F(11), F(12), F(13), F(14), F(15),
    F(16), F(17), F(18), F(19), F(20), F(21), F(22), F(23),
    F(24), F(25), F(26), F(27), F(28), F(29), F(30), F(31)>>

At(a, i) == a[i + 1]

Blades ==
  <<{}, {1}, {2}, {3}, {4}, {5},
    {1,2}, {1,3}, {1,4}, {1,5}, {2,3}, {2,4}, {2,5}, {3,4}, {3,5}, {4,5},
    {1,2,3}, {1,2,4}, {1,2,5}, {1,3,4}, {1,3,5}, {1,4,5},
    {2,3,4}, {2,3,5}, {2,4,5}, {3,4,5},
    {1,2,3,4}, {1,2,3,5}, {1,2,4,5}, {1,3,4,5}, {2,3,4,5},
    {1,2,3,4,5}>>

GradeOf(i) == Cardinality(Blades[i + 1])

ZeroArray == Vec(LAMBDA i : 0)

\* a faulty variant of project_val: the grade-2 slice ends one index late
project_val_wide(val, grade) ==
  Vec(LAMBDA i :
        IF grade = 0 THEN (IF i = 0 THEN At(val, 0) ELSE 0)
        ELSE IF grade = 1 THEN (IF i \in 1..5 THEN At(val, i) ELSE 0)
        ELSE IF grade = 2 THEN (IF i \in 6..16 THEN At(val, i) ELSE 0)
        ELSE IF grade = 3 THEN (IF i \in 16..25 THEN At(val, i) ELSE 0)
        ELSE IF grade = 4 THEN (IF i \in 26..30 THEN At(val, i) ELSE 0)
        ELSE IF grade = 5 THEN (IF i = 31 THEN At(val, 31) ELSE 0)
        ELSE 0)

(***************************************************************************)
(* project_val (lines 80-96): fast grade projection on a coefficient array *)
(***************************************************************************)
project_val(val, grade) ==
  Vec(LAMBDA i :
        IF grade = 0 THEN (IF i = 0 THEN At(val, 0) ELSE 0)
        ELSE IF grade = 1 THEN (IF i \in 1..5 THEN At(val, i) ELSE 0)
        ELSE IF grade = 2 THEN (IF i \in 6..15 THEN At(val, i) ELSE 0)
        ELSE IF grade = 3 THEN (IF i \in 16..25 THEN At(val, i) ELSE 0)
        ELSE IF grade = 4 THEN (IF i \in 26..30 THEN At(val, i) ELSE 0)
        ELSE IF grade = 5 THEN (IF i = 31 THEN At(val, 31) ELSE 0)
        ELSE 0)

(***************************************************************************)
(* Floating-point multivector values.  An argument is [nan, c]: the        *)
(* integer coefficients c, or an array tainted by IEEE not-a-number.       *)
(* A normalised result is [via, nan, reduced, c]: `via` names the          *)
(* expression that produced it, nan says that it holds not-a-number,       *)
(* and reduced says that it is the unit multivector c / sqrt(|c ~c|),      *)
(* with c brought to lowest terms.                                         *)
(***************************************************************************)
MV(c) == [nan |-> FALSE, c |-> c]

NaNMV == [nan |-> TRUE, c |-> ZeroMV]

RECURSIVE Gcd(_, _)
Gcd(m, n) == IF n = 0 THEN m ELSE Gcd(n, m % n)

RECURSIVE GcdOf(_)
GcdOf(c) ==
  IF c = {} THEN 0
  ELSE LET t == CHOOSE u \in c : TRUE IN Gcd(Abs(t[2]), GcdOf(c \ {t}))

\* c divided by the greatest common divisor of its coefficients
Primitive(c) ==
  IF c = {} THEN c ELSE {<<t[1], t[2] \div GcdOf(c)>> : t \in c}

\* MultiVector.mag2: the scalar part of ~M * M
mag2(c) == GmtAt(Reverse(c), c, {})

\* MultiVector.normal: M / sqrt(|mag2|); a zero magnitude divides 0.0 by 0.0
normal(M, via) ==
  IF M.nan \/ mag2(M.c) = 0
  THEN [via |-> via, nan |-> TRUE, reduced |-> FALSE, c |-> ZeroMV]
  ELSE [via |-> via, nan |-> FALSE, reduced |-> TRUE, c |-> Primitive(M.c)]

\* C * ~C, and its negation
CRevC(C) == [nan |-> C.nan, c |-> gmt_func(C.c, Reverse(C.c))]

Neg(M) == [nan |-> M.nan, c |-> Scale(0 - 1, M.c)]

(***************************************************************************)
(* The root finder (lines 210-290).  sigma is in units of 1e-10 / 3, so    *)
(* the threshold 0.0000000001 of check_infinite_roots is 3.                *)
(***************************************************************************)
InfiniteRootThreshold == 3

\* floor of the square root of r >= 0
ISqrt(r) == CHOOSE f \in 0..(r + 1) : f * f <= r /\ r < (f + 1) * (f + 1)

\* math.sqrt as a half step; negative argument: ValueError('math domain error')
HalfStepSqrt(r) ==
  LET f == ISqrt(r) IN IF f * f = r THEN 2 * f ELSE 2 * f + 1

\* sigma[0] ** 2 - (sigma(4) ** 2)[0]
Radicand(sigma) ==
  CoefOf(sigma.c, {}) * CoefOf(sigma.c, {})
    - GmtAt(GradePart(sigma.c, 4), GradePart(sigma.c, 4), {})

\* a faulty variant of dorst_norm_val: np.sqrt in place of math.sqrt, which
\* returns not-a-number for a negative radicand and raises nothing
dorst_norm_val_np(sigma) ==
  IF sigma.nan \/ Radicand(sigma) < 0
  THEN [raised |-> FALSE, nan |-> TRUE, h |-> 0]
  ELSE [raised |-> FALSE, nan |-> FALSE, h |-> HalfStepSqrt(Radicand(sigma))]

\* dorst_norm_val: [raised, nan, h]; h is the half step of the square root
dorst_norm_val(sigma) ==
  IF sigma.nan THEN [raised |-> FALSE, nan |-> TRUE, h |-> 0]
  ELSE IF Radicand(sigma) < 0 THEN [raised |-> TRUE, nan |-> FALSE, h |-> 0]
  ELSE [raised |-> FALSE, nan |-> FALSE, h |-> HalfStepSqrt(Radicand(sigma))]

\* a faulty variant of check_sigma_for_positive_root: the norm is subtracted
check_sigma_for_positive_root_minus(sigma) ==
  LET n == dorst_norm_val(sigma)
  IN  [raised |-> n.raised,
       val |-> ~n.raised /\ ~n.nan /\ 2 * CoefOf(sigma.c, {}) - n.h > 0]

\* each check is [raised, val]: the exception of dorst_norm_val passes through;
\* a comparison with not-a-number is False
check_sigma_for_positive_root(sigma) ==
  LET n == dorst_norm_val(sigma)
  IN  [raised |-> n.raised,
       val |-> ~n.raised /\ ~n.nan /\ 2 * CoefOf(sigma.c, {}) + n.h > 0]

\* a faulty variant of check_sigma_for_negative_root: the operands of the
\* subtraction are exchanged
check_sigma_for_negative_root_swapped(sigma) ==
  LET n == dorst_norm_val(sigma)
  IN  [raised |-> n.raised,
       val |-> ~n.raised /\ ~n.nan /\ n.h - 2 * CoefOf(sigma.c, {}) > 0]

check_sigma_for_negative_root(sigma) ==
  LET n == dorst_norm_val(sigma)
  IN  [raised |-> n.raised,
       val |-> ~n.raised /\ ~n.nan /\ 2 * CoefOf(sigma.c, {}) - n.h > 0]

check_infinite_roots(sigma) ==
  LET n == dorst_norm_val(sigma)
  IN  [raised |-> n.raised,
       val |-> ~n.raised /\ ~n.nan
               /\ 2 * CoefOf(sigma.c, {}) + n.h < 2 * InfiniteRootThreshold]

ScalarOnly(c) == \A t \in c : t[1] = {}

\* positive_root: k = (sigma + norm_s) / (sqrt(2) * sqrt(sigma[0] + norm_s)).
\* [name, scalar]: scalar says that k is a positive real number, which is
\* the case when sigma has a scalar part only and sigma[0] + norm_s > 0
positive_root(sigma) ==
  LET n == dorst_norm_val(sigma)
  IN  [name |-> "positive_root",
       scalar |-> ScalarOnly(sigma.c) /\ 2 * CoefOf(sigma.c, {}) + n.h > 0]

\* negative_root: k2 = (sigma - norm_s) / (sqrt(2) * sqrt(sigma[0] - norm_s))
negative_root(sigma) ==
  LET n == dorst_norm_val(sigma)
  IN  [name |-> "negative_root",
       scalar |-> ScalarOnly(sigma.c) /\ 2 * CoefOf(sigma.c, {}) - n.h > 0]

\* ((1. / k) * C).normal(): for a positive real k this is C.normal(); for any
\* other k the root is kept as the expression that defines it
RootVia(k, C) ==
  IF k.scalar THEN normal(C, k.name)
  ELSE [via |-> k.name, nan |-> C.nan, reduced |-> FALSE, c |-> C.c]

Raise(msg, sigma) ==
  [roots |-> <<>>, exc |-> msg, branch |-> "none", sigma |-> sigma]

Return(roots, branch, sigma) ==
  [roots |-> roots, exc |-> "", branch |-> branch, sigma |-> sigma]

\* the if / elif chain shared, line for line, by the two root finders
neg_twiddle_root(C) ==
  LET sigma == Neg(CRevC(C))
      a == check_sigma_for_positive_root(sigma)
      b == check_sigma_for_negative_root(sigma)
      c == check_infinite_roots(sigma)
  IN  IF a.raised THEN Raise("math domain error", sigma)
      ELSE IF a.val
        THEN Return(<<RootVia(positive_root(sigma), C)>>, "A", sigma)
      ELSE IF b.raised THEN Raise("math domain error", sigma)
      ELSE IF b.val
        THEN Return(<<RootVia(positive_root(sigma), C),
                      RootVia(negative_root(sigma), C)>>, "B", sigma)
      ELSE IF c.raised THEN Raise("math domain error", sigma)
      ELSE IF c.val THEN Return(<<normal(C, "normal")>>, "C", sigma)
      ELSE Raise("No root exists", sigma)

\* a faulty variant of pos_twiddle_root: the negative-root case is tested first
pos_twiddle_root_negative_first(C) ==
  LET sigma == CRevC(C)
      a == check_sigma_for_positive_root(sigma)
      b == check_sigma_for_negative_root(sigma)
      c == check_infinite_roots(sigma)
  IN  IF b.raised THEN Raise("math domain error", sigma)
      ELSE IF b.val
        THEN Return(<<RootVia(positive_root(sigma), C),
                      RootVia(negative_root(sigma), C)>>, "B", sigma)
      ELSE IF a.val
        THEN Return(<<RootVia(positive_root(sigma), C)>>, "A", sigma)
      ELSE IF c.val THEN Return(<<normal(C, "normal")>>, "C", sigma)
      ELSE Raise("No root exists", sigma)

\* a faulty variant of pos_twiddle_root: the last case returns C.normal()
\* instead of raising
pos_twiddle_root_default(C) ==
  LET sigma == CRevC(C)
      a == check_sigma_for_positive_root(sigma)
      b == check_sigma_for_negative_root(sigma)
      c == check_infinite_roots(sigma)
  IN  IF a.raised THEN Raise("math domain error", sigma)
      ELSE IF a.val
        THEN Return(<<RootVia(positive_root(sigma), C)>>, "A", sigma)
      ELSE IF b.val
        THEN Return(<<RootVia(positive_root(sigma), C),
                      RootVia(negative_root(sigma), C)>>, "B", sigma)
      ELSE Return(<<normal(C, "normal")>>, "C", sigma)

pos_twiddle_root(C) ==
  LET sigma == CRevC(C)
      a == check_sigma_for_positive_root(sigma)
      b == check_sigma_for_negative_root(sigma)
      c == check_infinite_roots(sigma)
  IN  IF a.raised THEN Raise("math domain error", sigma)
      ELSE IF a.val
        THEN Return(<<RootVia(positive_root(sigma), C)>>, "A", sigma)
      ELSE IF b.raised THEN Raise("math domain error", sigma)
      ELSE IF b.val
        THEN Return(<<RootVia(positive_root(sigma), C),
                      RootVia(negative_root(sigma), C)>>, "B", sigma)
      ELSE IF c.raised THEN Raise("math domain error", sigma)
      ELSE IF c.val THEN Return(<<normal(C, "normal")>>, "C", sigma)
      ELSE Raise("No root exists", sigma)

\* (root).normal() of a root that normal() produced: its magnitude is 1,
\* so the division leaves it as it is; not-a-number stays not-a-number
normal_of_unit(R) == R

(***************************************************************************)
(* interp_objects_root, average_objects, rotor_between_objects             *)
(* (lines 304-332).  Each returns [ret, exc, branch, sigma, C].            *)
(***************************************************************************)
NoValue == [none |-> TRUE]

FirstRootNormal(r, C) ==
  IF r.exc # ""
  THEN [ret |-> NoValue, exc |-> r.exc, branch |-> r.branch,
        sigma |-> r.sigma, C |-> C]
  ELSE [ret |-> normal_of_unit(r.roots[1]), exc |-> "", branch |-> r.branch,
        sigma |-> r.sigma, C |-> C]

interp_objects_root(C1, C2, alpha) ==
  LET C == Add(Scale(alpha, C1), Scale(1 - alpha, C2))
  IN  FirstRootNormal(neg_twiddle_root(MV(C)), C)

RECURSIVE SumList(_)
SumList(l) == IF l = <<>> THEN ZeroMV ELSE Add(Head(l), SumList(Tail(l)))

\* sum(obj_list) / len(obj_list); the argument lists are those whose mean has
\* integer coefficients, so that \div is the exact division
average_objects(obj_list) ==
  LET C == {<<t[1], t[2] \div Len(obj_list)>> : t \in SumList(obj_list)}
  IN  FirstRootNormal(neg_twiddle_root(MV(C)), C)

One == Blade({})

rotor_between_objects(C1, C2) ==
  IF GmtAt(C1, C1, {}) > 0
  THEN LET C == Add(One, gmt_func(C2, C1))
           r == pos_twiddle_root(MV(C))
       IN  IF r.exc # ""
           THEN [ret |-> NoValue, exc |-> r.exc, branch |-> "root",
                 sigma |-> r.sigma, C |-> C]
           ELSE [ret |-> r.roots[1], exc |-> "", branch |-> "root",
                 sigma |-> r.sigma, C |-> C]
  ELSE LET C == Sub(One, gmt_func(C2, C1))
       IN  [ret |-> normal(MV(C), "normal"), exc |-> "", branch |-> "direct",
            sigma |-> NoValue, C |-> C]

(***************************************************************************)
(* ga_exp and val_exp (lines 408-441).  The coefficients of B are in units *)
(* of half the machine epsilon, so np.finfo(float).eps is 2.               *)
(***************************************************************************)
EpsUnits == 2

ninf_val == Add(Blade({4}), Blade({5}))

\* no = -eo = (e4 - e5) / 2; no2_val is 2 * no, which keeps the coefficients
\* integers: t2 below is 2 * t_val and phiP2 is 2 * phiP_val
no2_val == Sub(Blade({4}), Blade({5}))

mult_with_ninf(mv) == gmt_func(mv, ninf_val)

SumAbs(a) == SumOver(LAMBDA t : Abs(t[2]), a)

\* val_exp up to the division P_val = phiP_val / phi.  phi_sq is 4 * phi^2.
\* np.sqrt of a negative number is not-a-number; phiP_val / 0.0 divides by
\* zero, and with phiP_val = 0 it is the indeterminate 0.0 / 0.0; either way
\* every coefficient of R_val is then not-a-number
val_exp(B_val) ==
  LET t2 == imt_func(B_val, no2_val)
      phiP2 == Sub(Scale(2, B_val), mult_with_ninf(t2))
      phi_sq == 0 - GmtAt(phiP2, phiP2, {})
  IN  [ret |-> [nan |-> phi_sq <= 0, form |-> "val_exp", c |-> B_val],
       val_exp_called |-> TRUE,
       phi_sq |-> phi_sq,
       divided_by_zero |-> phi_sq = 0,
       indeterminate |-> phi_sq = 0 /\ phiP2 = ZeroMV]

\* a faulty variant of ga_exp: only the exact zero bivector is short-cut
ga_exp_exact_zero(B) ==
  IF SumAbs(B) = 0
  THEN [ret |-> [nan |-> FALSE, form |-> "unit_scalar_mv", c |-> One],
        val_exp_called |-> FALSE,
        phi_sq |-> 0,
        divided_by_zero |-> FALSE,
        indeterminate |-> FALSE]
  ELSE val_exp(B)

\* unit_scalar_mv.value: 1.0 + 0.0*e1
ga_exp(B) ==
  IF SumAbs(B) < EpsUnits
  THEN [ret |-> [nan |-> FALSE, form |-> "unit_scalar_mv", c |-> One],
        val_exp_called |-> FALSE,
        phi_sq |-> 0,
        divided_by_zero |-> FALSE,
        indeterminate |-> FALSE]
  ELSE val_exp(B)

(***************************************************************************)
(* Inputs.                                                                 *)
(***************************************************************************)
\* coefficient arrays for project_val: a + b * i at index i
Arrays == {Vec(LAMBDA i : a + b * i) : a \in Coef, b \in Coef}

\* combined objects a + b*Y + c*Z handed to the root finders
RootGens ==
  {Blade({1}), Blade({5}), Blade({1, 2}), Blade({1, 2, 3, 4}),
   Blade({1, 2, 3, 5})}

RootArgs ==
  {MV(Add(Add(Scale(a, One), Scale(b, Y)), Scale(c, Z))) :
     a \in Coef, b \in Coef, c \in 0..1, Y \in RootGens, Z \in RootGens}
  \cup {NaNMV}

\* geometric objects (blades of grade 1 to 4): the conformal point
\* up(e1) = e1 + e5, the point pair up(e1) ^ up(-e1) = 2 e15, the sphere e1235
\* (the dual of e4), each in both orientations and at several weights
ObjectBlades ==
  {Add(Blade({1}), Blade({5})), Blade({1, 5}), Blade({1, 2, 3, 5})}

Objects == {Scale(s, X) : s \in Coef \ {0}, X \in ObjectBlades}

IsObject(X) == X \in Objects

\* a multivector that is no object: 1 + e5 + e1234
NonObject == Add(Add(One, Blade({5})), Blade({1, 2, 3, 4}))

InterpArgs == Objects \cup {NonObject}

Alphas == {0 - 1, 0, 1, 2}

Divisible(l) == \A t \in SumList(l) : t[2] % Len(l) = 0

ObjectLists ==
  {l \in {<<X>> : X \in InterpArgs} \cup (InterpArgs \X InterpArgs) :
     Divisible(l)}

\* bivectors a*e12 + b*(e1^ninf) + c*G in units of eps / 2
BivectorGens ==
  {Blade({2, 3}), Blade({4, 5}), Sub(Blade({1, 4}), Blade({1, 5})),
   Add(Blade({3, 4}), Blade({3, 5}))}

e1_ninf == Add(Blade({1, 4}), Blade({1, 5}))

Bivectors ==
  {Add(Add(Scale(a, Blade({1, 2})), Scale(b, e1_ninf)), Scale(c, G)) :
     a \in Coef, b \in Coef, c \in 0..1, G \in BivectorGens}

Init ==
  /\ op = "init"
  /\ arg = NoValue
  /\ ret = NoValue
  /\ exc = ""
  /\ trace = NoValue

CallProjectVal ==
  /\ op = "init"
  /\ \E val \in Arrays, grade \in 0..5 :
       /\ op' = "project_val"
       /\ arg' = [val |-> val, grade |-> grade]
       /\ ret' = project_val(val, grade)
       /\ exc' = ""
       /\ trace' = NoValue

CallPosTwiddleRoot ==
  /\ op = "init"
  /\ \E C \in RootArgs :
       LET r == pos_twiddle_root(C)
       IN  /\ op' = "pos_twiddle_root"
           /\ arg' = [C |-> C]
           /\ ret' = r.roots
           /\ exc' = r.exc
           /\ trace' = [branch |-> r.branch, sigma |-> r.sigma]

CallNegTwiddleRoot ==
  /\ op = "init"
  /\ \E C \in RootArgs :
       LET r == neg_twiddle_root(C)
       IN  /\ op' = "neg_twiddle_root"
           /\ arg' = [C |-> C]
           /\ ret' = r.roots
           /\ exc' = r.exc
           /\ trace' = [branch |-> r.branch, sigma |-> r.sigma]

CallInterpObjectsRoot ==
  /\ op = "init"
  /\ \E C1 \in InterpArgs, C2 \in InterpArgs, alpha \in Alphas :
       LET r == interp_objects_root(C1, C2, alpha)
       IN  /\ op' = "interp_objects_root"
           /\ arg' = [C1 |-> C1, C2 |-> C2, alpha |-> alpha]
           /\ ret' = r.ret
           /\ exc' = r.exc
           /\ trace' = [branch |-> r.branch, sigma |-> r.sigma, C |-> r.C]

CallAverageObjects ==
  /\ op = "init"
  /\ \E obj_list \in ObjectLists :
       LET r == average_objects(obj_list)
       IN  /\ op' = "average_objects"
           /\ arg' = [obj_list |-> obj_list]
           /\ ret' = r.ret
           /\ exc' = r.exc
           /\ trace' = [branch |-> r.branch, sigma |-> r.sigma, C |-> r.C]

CallRotorBetweenObjects ==
  /\ op = "init"
  /\ \E C1 \in Objects, C2 \in Objects :
       LET r == rotor_between_objects(C1, C2)
       IN  /\ op' = "rotor_between_objects"
           /\ arg' = [C1 |-> C1, C2 |-> C2]
           /\ ret' = r.ret
           /\ exc' = r.exc
           /\ trace' = [branch |-> r.branch, sigma |-> r.sigma, C |-> r.C]

CallGaExp ==
  /\ op = "init"
  /\ \E B \in Bivectors :
       LET r == ga_exp(B)
       IN  /\ op' = "ga_exp"
           /\ arg' = [B |-> B]
           /\ ret' = r.ret
           /\ exc' = ""
           /\ trace' = [val_exp_called |-> r.val_exp_called,
                        phi_sq |-> r.phi_sq,
                        divided_by_zero |-> r.divided_by_zero,
                        indeterminate |-> r.indeterminate]

Next ==
  \/ CallProjectVal
  \/ CallPosTwiddleRoot
  \/ CallNegTwiddleRoot
  \/ CallInterpObjectsRoot
  \/ CallAverageObjects
  \/ CallRotorBetweenObjects
  \/ CallGaExp

Spec == Init /\ [][Next]_vars

(***************************************************************************)
(* Properties.                                                             *)
(***************************************************************************)
IsTwiddle == op \in {"pos_twiddle_root", "neg_twiddle_root"}

UsesRootFinder ==
  op \in {"pos_twiddle_root", "neg_twiddle_root", "interp_objects_root",
          "average_objects"}

CondA == check_sigma_for_positive_root(trace.sigma).val

CondB == check_sigma_for_negative_root(trace.sigma).val

CondC == check_infinite_roots(trace.sigma).val

\* dorst_norm is a real number: no not-a-number, radicand not negative
RealNorm == ~trace.sigma.nan /\ Radicand(trace.sigma) >= 0

HowMany(S) == Cardinality({b \in S : b[2]})

\* C1: in both root finders the conditions are tested in the order A, B, C and
\* the first that holds decides: A gives exactly one root (the positive-branch
\* root), B gives exactly two, [positive-branch root, negative-branch root],
\* C gives exactly one, C normalised; a result is a list of 1 or 2 roots, and a
\* sigma for which A and B both hold gives one root.
C1_CaseOrder ==
  IsTwiddle =>
    /\ trace.sigma = (IF op = "pos_twiddle_root" THEN CRevC(arg.C)
                      ELSE Neg(CRevC(arg.C)))
    /\ CondA =>
         /\ exc = "" /\ trace.branch = "A" /\ Len(ret) = 1
         /\ ret[1].via = "positive_root"
    /\ (~CondA /\ CondB) =>
         /\ exc = "" /\ trace.branch = "B" /\ Len(ret) = 2
         /\ ret[1].via = "positive_root" /\ ret[2].via = "negative_root"
    /\ (~CondA /\ ~CondB /\ CondC) =>
         /\ exc = "" /\ trace.branch = "C"
         /\ ret = <<normal(arg.C, "normal")>>
    /\ exc = "" => Len(ret) \in {1, 2}

\* a sigma for which the conditions of A and of B both hold, and one root
C1_Witness ==
  /\ IsTwiddle /\ CondA /\ CondB
  /\ trace.branch = "A" /\ Len(ret) = 1

\* C2 as stated: for a real dorst_norm at most one of the three conditions
\* (positive root, negative root, infinite roots) holds.
C2_MutuallyExclusive ==
  (IsTwiddle /\ RealNorm) =>
    HowMany({<<"A", CondA>>, <<"B", CondB>>, <<"C", CondC>>}) <= 1

\* C2 as amended: for a real dorst_norm the condition for a negative root
\* implies the condition for a positive root, and when the condition for a
\* positive root fails exactly one condition holds, that for infinite roots.
C2_ConditionsNested ==
  (IsTwiddle /\ RealNorm) =>
    /\ CondB => CondA
    /\ ~CondA => (CondC /\ ~CondB)

\* the positive-root condition fails and exactly one condition holds
C2_Witness ==
  /\ IsTwiddle /\ RealNorm /\ ~CondA /\ CondC /\ ~CondB
  /\ trace.branch = "C"

\* C3: when none of the three conditions holds, both root finders raise
\* 'No root exists' and return no list of roots.
C3_NoRootExists ==
  (/\ IsTwiddle
   /\ ~dorst_norm_val(trace.sigma).raised
   /\ ~CondA /\ ~CondB /\ ~CondC) =>
    /\ exc = "No root exists"
    /\ ret = <<>>
    /\ trace.branch = "none"

\* no condition holds (sigma holds not-a-number) and the error is raised
C3_Witness ==
  /\ IsTwiddle /\ ~CondA /\ ~CondB /\ ~CondC
  /\ ~dorst_norm_val(trace.sigma).raised
  /\ exc = "No root exists"

\* C4: when the radicand of dorst_norm is negative, dorst_norm_val fails and
\* the failure passes through the checks, the root finders,
\* interp_objects_root and average_objects: nothing is returned and no case
\* (A, B, C or 'No root exists') is taken.
C4_DomainErrorPropagates ==
  (UsesRootFinder /\ ~trace.sigma.nan /\ Radicand(trace.sigma) < 0) =>
    /\ dorst_norm_val(trace.sigma).raised
    /\ check_sigma_for_positive_root(trace.sigma).raised
    /\ exc = "math domain error"
    /\ trace.branch = "none"
    /\ ret \in {<<>>, NoValue}

\* a negative radicand reaches dorst_norm_val through average_objects
C4_Witness ==
  /\ op = "average_objects"
  /\ ~trace.sigma.nan /\ Radicand(trace.sigma) < 0
  /\ exc = "math domain error"

\* C5: for every B that passes the epsilon guard, val_exp divides by no
\* phi = 0 and the result is a well-defined versor.
C5_NoDivisionByZero ==
  (op = "ga_exp" /\ trace.val_exp_called) =>
    /\ ~trace.divided_by_zero
    /\ (trace.phi_sq = 0 => ~ret.nan)

\* C6: for the zero bivector and for every B whose sum of absolute
\* coefficients is below machine epsilon, ga_exp returns the identity versor
\* (coefficient 0 equal to 1, the 31 others 0) and does not evaluate val_exp.
C6_IdentityBelowEps ==
  (op = "ga_exp" /\ SumAbs(arg.B) < EpsUnits) =>
    /\ ~trace.val_exp_called
    /\ ~ret.nan
    /\ CoefOf(ret.c, {}) = 1
    /\ \A t \in ret.c : t[1] = {}

\* a non-zero bivector below machine epsilon
C6_Witness ==
  /\ op = "ga_exp" /\ arg.B # ZeroMV /\ SumAbs(arg.B) < EpsUnits
  /\ CoefOf(ret.c, {}) = 1

\* the index ranges of the grades 0..5: [0,1), [1,6), [6,16), [16,26),
\* [26,31), [31,32)
BandOf(g) ==
  IF g = 0 THEN 0..0
  ELSE IF g = 1 THEN 1..5
  ELSE IF g = 2 THEN 6..15
  ELSE IF g = 3 THEN 16..25
  ELSE IF g = 4 THEN 26..30
  ELSE 31..31

\* C7: for every array v and grade g in 0..5, project_val(v, g) equals v on
\* the band of g and is zero elsewhere, and projecting the result again at
\* the same grade changes nothing.
C7_GradeProjection ==
  op = "project_val" =>
    /\ \A i \in Idx :
         At(ret, i) = (IF i \in BandOf(arg.grade) THEN At(arg.val, i) ELSE 0)
    /\ \A i \in Idx : (i \in BandOf(arg.grade)) <=> (GradeOf(i) = arg.grade)
    /\ project_val(ret, arg.grade) = ret

\* a projection that keeps some coefficients and clears others
C7_Witness ==
  /\ op = "project_val" /\ arg.grade = 2
  /\ ret # ZeroArray /\ ret # arg.val

\* R is the unit multivector along X
IsNormalisedFormOf(R, X) ==
  R # NoValue /\ ~R.nan /\ R.reduced /\ R.c = Primitive(X)

\* C8: for all objects C1, C2, interp_objects_root forms
\* C = alpha*C1 + (1-alpha)*C2 and returns the first root of the negative
\* root finder, normalised; at alpha = 1 the result is a normalised form of
\* C1 and at alpha = 0 a normalised form of C2.
C8_InterpolationBoundary ==
  (op = "interp_objects_root" /\ IsObject(arg.C1) /\ IsObject(arg.C2)) =>
    /\ trace.C = Add(Scale(arg.alpha, arg.C1), Scale(1 - arg.alpha, arg.C2))
    /\ trace.sigma = Neg(CRevC(MV(trace.C)))
    /\ arg.alpha = 1 => (exc = "" /\ IsNormalisedFormOf(ret, arg.C1))
    /\ arg.alpha = 0 => (exc = "" /\ IsNormalisedFormOf(ret, arg.C2))

\* C9: rotor_between_objects uses the positive root finder on 1 + C2*C1
\* exactly when the scalar part of C1*C1 is positive; otherwise it returns
\* (1 - C2*C1) normalised, and there (1 - C2*C1) has a non-zero norm.
C9_RotorBetween ==
  op = "rotor_between_objects" =>
    /\ (trace.branch = "root") <=> (GmtAt(arg.C1, arg.C1, {}) > 0)
    /\ trace.branch = "root" =>
         trace.C = Add(One, gmt_func(arg.C2, arg.C1))
    /\ trace.branch = "direct" =>
         /\ trace.C = Sub(One, gmt_func(arg.C2, arg.C1))
         /\ mag2(trace.C) # 0
         /\ ~ret.nan

\* C10: for a sigma whose radicand is not negative, both root finders take
\* case A or case C; case B and 'No root exists' are not reached, and the
\* result is a list of exactly one root.
C10_OnlyCaseAOrC ==
  (IsTwiddle /\ RealNorm) =>
    /\ trace.branch \in {"A", "C"}
    /\ exc = ""
    /\ Len(ret) = 1

\* the condition of case B holds and still one root is returned
C10_Witness ==
  /\ IsTwiddle /\ RealNorm /\ CondB
  /\ trace.branch = "A" /\ Len(ret) = 1
====
